---- MODULE Spec2Model ----
(***************************************************************************)
(* Control-point list of the path-generation add-on (src/__init__.py).     *)
(*                                                                         *)
(* The state is the scene's control_points collection, its active index,   *)
(* the sphere objects of bpy.data.objects that visualise the points, the   *)
(* scene's curve_type and curve_name, and the curves generated so far.     *)
(* Every operator's execute() is one action; the update callback attached  *)
(* to the x, y and z properties runs inside every assignment to them.      *)
(*                                                                         *)
(* List positions are 0-based as in the source; the TLA+ sequence holding  *)
(* the list is 1-based, so position p is element p + 1.                    *)
(***************************************************************************)
EXTENDS Integers, Sequences, FiniteSets, TLC

VARIABLES control_points, objects, active_control_point_index, report, last,
          curve_type, curve_name, curves, result

vars == <<control_points, objects, active_control_point_index, report, last,
          curve_type, curve_name, curves, result>>

(* Bound of the model: the longest list the commands build. *)
MaxPoints == 3

(* The values the user types into a coordinate field. The code never      *)
(* branches on a coordinate, so two values tell the points apart.         *)
Coords == {0, 1}

(* ---------------------------------------------------------------------- *)
(* Names                                                                  *)
(* ---------------------------------------------------------------------- *)

(* The default of sphere_name: the empty string. *)
EmptyName == <<>>

(* f"ControlPoint_{index}": the prefix followed by the decimal index. *)
SphereName(index) == <<"ControlPoint_", index>>

(* name.startswith("ControlPoint_") *)
IsSphereName(name) == Len(name) >= 1 /\ name[1] = "ControlPoint_"

(* ---------------------------------------------------------------------- *)
(* ControlPointProperty and the host collection API                       *)
(* ---------------------------------------------------------------------- *)

(* A freshly added ControlPointProperty: the declared defaults. *)
DefaultPoint == [x |-> 0, y |-> 0, z |-> 0, sphere_name |-> EmptyName]

(* control_points.add(): a default element at the end. *)
collection_add(cps) == Append(cps, DefaultPoint)

(* control_points.remove(index): drops the element, the rest close up. *)
collection_remove(cps, index) ==
  IF 0 <= index /\ index < Len(cps)
  THEN [i \in 1..(Len(cps) - 1) |-> IF i <= index THEN cps[i] ELSE cps[i + 1]]
  ELSE cps

(* Mutant of collection_move: the two elements change places. *)
CollectionMoveSwaps(cps, key, pos) ==
  IF 0 <= key /\ key < Len(cps) /\ 0 <= pos /\ pos < Len(cps) /\ key # pos
  THEN [cps EXCEPT ![key + 1] = cps[pos + 1], ![pos + 1] = cps[key + 1]]
  ELSE cps

(* Mutant of collection_move: moving towards the end, the element is put  *)
(* before the element that was at pos and so ends one place short.        *)
CollectionMoveStopsShort(cps, key, pos) ==
  IF 0 <= key /\ key < Len(cps) /\ 0 <= pos /\ pos < Len(cps) /\ key # pos
  THEN [i \in 1..Len(cps) |->
          LET p == i - 1
              to == IF key < pos THEN pos - 1 ELSE pos
          IN IF p = to THEN cps[key + 1]
             ELSE IF to < key /\ to < p /\ p <= key THEN cps[i - 1]
             ELSE IF key < to /\ key <= p /\ p < to THEN cps[i + 1]
             ELSE cps[i]]
  ELSE cps

(* control_points.move(key, pos): the element at key is taken out and put  *)
(* at pos, the elements between shift by one; nothing happens when either  *)
(* index is out of range or both are equal.                                *)
collection_move(cps, key, pos) ==
  IF 0 <= key /\ key < Len(cps) /\ 0 <= pos /\ pos < Len(cps) /\ key # pos
  THEN [i \in 1..Len(cps) |->
          LET p == i - 1 IN
          IF p = pos THEN cps[key + 1]
          ELSE IF pos < key /\ pos < p /\ p <= key THEN cps[i - 1]
          ELSE IF key < pos /\ key <= p /\ p < pos THEN cps[i + 1]
          ELSE cps[i]]
  ELSE cps

(* control_points[i] with Python indexing: a negative i counts from the    *)
(* end. Defined when -len <= i < len; otherwise the access raises.         *)
IndexOk(cps, i) == -Len(cps) <= i /\ i < Len(cps)

PyIndex(cps, i) == IF i < 0 THEN i + Len(cps) ELSE i

(* ---------------------------------------------------------------------- *)
(* Spheres                                                                *)
(* ---------------------------------------------------------------------- *)

(* bpy.data.objects.remove of the object called sphere_name, if any. *)
cleanup_sphere(objs, sphere_name) ==
  IF sphere_name # EmptyName /\ sphere_name \in DOMAIN objs
  THEN [n \in (DOMAIN objs) \ {sphere_name} |-> objs[n]]
  ELSE objs

(* The point at position control_point gets the name for index, any object *)
(* of that name is removed, and a new sphere of that name is created at    *)
(* the point's coordinates (in the "Control Points" collection).           *)
create_control_point_sphere(sc, control_point, index) ==
  LET sphere_name == SphereName(index)
      cps == [sc.control_points EXCEPT ![control_point + 1].sphere_name = sphere_name]
      objs == cleanup_sphere(sc.objects, sphere_name)
      pt == cps[control_point + 1]
  IN [sc EXCEPT !.control_points = cps,
                !.objects = [n \in (DOMAIN objs) \cup {sphere_name} |->
                               IF n = sphere_name THEN <<pt.x, pt.y, pt.z>>
                               ELSE objs[n]]]

(* The update callback of x, y and z: finds the position of the changed    *)
(* point in the list and recreates its sphere under that position's name.  *)
update_coords(sc, self) == create_control_point_sphere(sc, self, self)

(* Assignments to a coordinate property; each runs the update callback. *)
SetX(sc, p, v) == update_coords([sc EXCEPT !.control_points[p + 1].x = v], p)

SetY(sc, p, v) == update_coords([sc EXCEPT !.control_points[p + 1].y = v], p)

SetZ(sc, p, v) == update_coords([sc EXCEPT !.control_points[p + 1].z = v], p)

(* point.x, point.y, point.z = a, b, c *)
SetXYZ(sc, p, a, b, c) == SetZ(SetY(SetX(sc, p, a), p, b), p, c)

(* for point in control_points[from..]: cleanup_sphere(point.sphere_name) *)
RECURSIVE CleanupFrom(_, _, _)
CleanupFrom(cps, objs, p) ==
  IF p >= Len(cps) THEN objs
  ELSE CleanupFrom(cps, cleanup_sphere(objs, cps[p + 1].sphere_name), p + 1)

(* for i, point in enumerate(control_points), from position p on:          *)
(*   point.sphere_name = f"ControlPoint_{i}"; create_control_point_sphere   *)
RECURSIVE ResyncFrom(_, _)
ResyncFrom(sc, p) ==
  IF p >= Len(sc.control_points) THEN sc
  ELSE ResyncFrom(
         create_control_point_sphere(
           [sc EXCEPT !.control_points[p + 1].sphere_name = SphereName(p)], p, p),
         p + 1)

(* for i, point in enumerate(control_points), from position p on:          *)
(*   create_control_point_sphere(context, point, i)                        *)
RECURSIVE CreateFrom(_, _)
CreateFrom(sc, p) ==
  IF p >= Len(sc.control_points) THEN sc
  ELSE CreateFrom(create_control_point_sphere(sc, p, p), p + 1)

(* ---------------------------------------------------------------------- *)
(* Operators: each maps the scene to the scene after execute()            *)
(* ---------------------------------------------------------------------- *)

Scene ==
  [control_points |-> control_points,
   objects |-> objects,
   active_control_point_index |-> active_control_point_index,
   report |-> "NONE"]

(* Mutant of ShiftLoop: the loop stops one place early, range(num_points, *)
(* index + 1, -1), so the point at index is not copied to index + 1.      *)
RECURSIVE ShiftLoopStopsEarly(_, _, _, _)
ShiftLoopStopsEarly(sc, existing_points, i, index) ==
  IF i <= index + 1 THEN sc
  ELSE LET data == existing_points[i]
       IN ShiftLoopStopsEarly(SetXYZ(sc, i, data.x, data.y, data.z),
                              existing_points, i - 1, index)

(* for i in range(num_points, index, -1): control_points[i] takes the      *)
(* saved coordinates of position i - 1.                                    *)
RECURSIVE ShiftLoop(_, _, _, _)
ShiftLoop(sc, existing_points, i, index) ==
  IF i <= index THEN sc
  ELSE LET prev_idx == i - 1
           data == existing_points[prev_idx + 1]
           next == IF prev_idx >= 0 /\ prev_idx < Len(existing_points)
                   THEN SetXYZ(sc, i, data.x, data.y, data.z)
                   ELSE sc
       IN ShiftLoop(next, existing_points, i - 1, index)

(* OBJECT_OT_add_control_point.execute, the branch that appends. *)
AddAtEnd(sc) ==
  LET num_points == Len(sc.control_points)
      s0 == [sc EXCEPT !.control_points = collection_add(@)]
      s1 == SetXYZ(s0, num_points, 0, 0, 0)
      s2 == [s1 EXCEPT !.control_points[num_points + 1].sphere_name =
                          SphereName(num_points)]
      s3 == create_control_point_sphere(s2, num_points, num_points)
  IN [s3 EXCEPT !.active_control_point_index = num_points]

(* OBJECT_OT_add_control_point.execute, the branch that inserts. *)
AddAtIndex(sc, index) ==
  LET num_points == Len(sc.control_points)
      existing_points == [i \in 1..num_points |->
                            [x |-> sc.control_points[i].x,
                             y |-> sc.control_points[i].y,
                             z |-> sc.control_points[i].z]]
      s0 == [sc EXCEPT !.objects = CleanupFrom(sc.control_points, @, 0)]
      s1 == [s0 EXCEPT !.control_points = collection_add(@)]
      s2 == ShiftLoop(s1, existing_points, num_points, index)
      s3 == SetXYZ(s2, index, 0, 0, 0)
      s4 == ResyncFrom(s3, 0)
  IN [s4 EXCEPT !.active_control_point_index = index]

add_execute(sc, index) ==
  IF index < 0 \/ index > Len(sc.control_points)
  THEN AddAtEnd(sc)
  ELSE AddAtIndex(sc, index)

(* Mutant of remove_execute: the point goes, its sphere stays. *)
RemoveKeepsSphere(sc, index) ==
  IF 0 <= index /\ index < Len(sc.control_points)
  THEN [sc EXCEPT !.control_points = collection_remove(@, index),
                  !.report = "INFO"]
  ELSE [sc EXCEPT !.report = "WARNING"]

(* Mutant of remove_execute: the range check lets -1 through, which then  *)
(* addresses the last point.                                              *)
RemoveAcceptsMinusOne(sc, index) ==
  IF -1 <= index /\ index < Len(sc.control_points) /\ Len(sc.control_points) > 0
  THEN LET at == PyIndex(sc.control_points, index)
       IN [sc EXCEPT !.objects = cleanup_sphere(@, sc.control_points[at + 1].sphere_name),
                     !.control_points = collection_remove(@, at),
                     !.report = "INFO"]
  ELSE [sc EXCEPT !.report = "WARNING"]

(* OBJECT_OT_remove_control_point.execute *)
remove_execute(sc, index) ==
  IF 0 <= index /\ index < Len(sc.control_points)
  THEN [sc EXCEPT !.objects = cleanup_sphere(@, sc.control_points[index + 1].sphere_name),
                  !.control_points = collection_remove(@, index),
                  !.report = "INFO"]
  ELSE [sc EXCEPT !.report = "WARNING"]

(* Mutant of move_execute: the active index stays on the old row. *)
MoveKeepsActiveIndex(sc, direction, index) ==
  LET cps == sc.control_points
      num_points == Len(cps)
      old_index == index
      new_index == IF direction = "UP" THEN old_index - 1 ELSE old_index + 1
  IN IF 0 <= new_index /\ new_index < num_points
     THEN IF ~IndexOk(cps, old_index)
          THEN [sc EXCEPT !.report = "ERROR"]
          ELSE LET cur == PyIndex(cps, old_index)
                   objs1 == cleanup_sphere(
                              cleanup_sphere(sc.objects, cps[cur + 1].sphere_name),
                              cps[new_index + 1].sphere_name)
                   s1 == [sc EXCEPT !.objects = objs1,
                                    !.control_points = collection_move(@, old_index, new_index),
                                    !.active_control_point_index = old_index]
                   s4 == create_control_point_sphere(s1, cur, old_index)
               IN create_control_point_sphere(s4, new_index, new_index)
     ELSE sc

(* OBJECT_OT_move_control_point.execute *)
move_execute(sc, direction, index) ==
  LET cps == sc.control_points
      num_points == Len(cps)
      old_index == index
      new_index == IF direction = "UP" THEN old_index - 1 ELSE old_index + 1
  IN IF 0 <= new_index /\ new_index < num_points
     THEN IF ~IndexOk(cps, old_index)
          THEN [sc EXCEPT !.report = "ERROR"]
          ELSE LET cur == PyIndex(cps, old_index)
                   objs1 == cleanup_sphere(
                              cleanup_sphere(sc.objects, cps[cur + 1].sphere_name),
                              cps[new_index + 1].sphere_name)
                   s1 == [sc EXCEPT !.objects = objs1,
                                    !.control_points = collection_move(@, old_index, new_index),
                                    !.active_control_point_index = new_index]
                   s2 == [s1 EXCEPT !.control_points[cur + 1].sphere_name =
                                       SphereName(old_index)]
                   s3 == [s2 EXCEPT !.control_points[new_index + 1].sphere_name =
                                       SphereName(new_index)]
                   s4 == create_control_point_sphere(s3, cur, old_index)
               IN create_control_point_sphere(s4, new_index, new_index)
     ELSE sc

(* OBJECT_OT_reorder_control_point.execute *)
reorder_execute(sc, old_index, new_index) ==
  LET s0 == [sc EXCEPT !.objects = CleanupFrom(sc.control_points, @, 0)]
      s1 == [s0 EXCEPT !.control_points = collection_move(@, old_index, new_index)]
      s2 == ResyncFrom(s1, 0)
  IN [s2 EXCEPT !.active_control_point_index = new_index]

(* OBJECT_OT_show_control_points.execute: every object whose name starts   *)
(* with "ControlPoint_" is removed (the loop is taken to visit every       *)
(* object), then every point gets its sphere.                              *)
show_execute(sc) ==
  LET kept == {n \in DOMAIN sc.objects : ~IsSphereName(n)}
      s0 == [sc EXCEPT !.objects = [n \in kept |-> sc.objects[n]]]
      s1 == CreateFrom(s0, 0)
  IN [s1 EXCEPT !.report = "INFO"]

(* Mutant of hide_execute: the sphere named ControlPoint_<active index> is *)
(* left in place.                                                         *)
HideKeepsActive(sc) ==
  LET kept == DOMAIN sc.objects \cap {SphereName(sc.active_control_point_index)}
  IN [sc EXCEPT !.objects = [n \in kept |-> sc.objects[n]], !.report = "INFO"]

(* OBJECT_OT_hide_control_points.execute: every object linked to the       *)
(* "Control Points" collection is removed (the loop is taken to visit      *)
(* every object). The collection exists from register() on, and the       *)
(* spheres are the objects linked to it.                                   *)
hide_execute(sc) ==
  [sc EXCEPT !.objects = [n \in {} |-> <<0, 0, 0>>], !.report = "INFO"]

(* ---------------------------------------------------------------------- *)
(* Curve generation                                                       *)
(* ---------------------------------------------------------------------- *)

(* The scene as OBJECT_OT_generate_curve and OBJECT_OT_select_curve_type   *)
(* see it: the list, the curve properties and the curves generated so far. *)
(* A generated curve is the curve object together with its curve data;     *)
(* names hold the name the code asks the host for, and f"{a}Obj" is the    *)
(* pair <<a, "Obj">>.                                                      *)
CurveScene ==
  [control_points |-> control_points,
   objects |-> objects,
   active_control_point_index |-> active_control_point_index,
   report |-> "NONE",
   curve_type |-> curve_type,
   curve_name |-> curve_name,
   curves |-> curves,
   result |-> "NONE"]

(* Mutant of nurbs_spline: the order is the point count, without the cap. *)
NurbsOrderUnclamped(cps) ==
  [type |-> "NURBS",
   points |-> [i \in 1..(1 + (Len(cps) - 1)) |-> <<cps[i].x, cps[i].y, cps[i].z, 1>>],
   order_u |-> Len(cps),
   use_endpoint_u |-> TRUE]

(* The NURBS branch: splines.new gives a spline of one point, points.add   *)
(* appends len - 1 more, and the loop writes (x, y, z, 1.0) into each.     *)
nurbs_spline(cps) ==
  [type |-> "NURBS",
   points |-> [i \in 1..(1 + (Len(cps) - 1)) |-> <<cps[i].x, cps[i].y, cps[i].z, 1>>],
   order_u |-> IF 4 < Len(cps) THEN 4 ELSE Len(cps),
   use_endpoint_u |-> TRUE]

(* Mutant of bezier_spline: the anchors are written in reverse order. *)
BezierReversed(cps) ==
  [type |-> "BEZIER",
   bezier_points |->
     [i \in 1..(1 + (Len(cps) - 1)) |->
        [co |-> <<cps[Len(cps) + 1 - i].x, cps[Len(cps) + 1 - i].y,
                  cps[Len(cps) + 1 - i].z>>,
         handle_left_type |-> "AUTO",
         handle_right_type |-> "AUTO"]]]

(* The other branch, taken for every curve_type that is not "NURBS". *)
bezier_spline(cps) ==
  [type |-> "BEZIER",
   bezier_points |->
     [i \in 1..(1 + (Len(cps) - 1)) |->
        [co |-> <<cps[i].x, cps[i].y, cps[i].z>>,
         handle_left_type |-> "AUTO",
         handle_right_type |-> "AUTO"]]]

(* Mutant of generate_execute: no check for the empty list. *)
GenerateIgnoresEmpty(sc) ==
  LET name == IF sc.curve_name # "" THEN sc.curve_name ELSE "GeneratedCurve"
      spline == IF sc.curve_type = "NURBS" THEN nurbs_spline(sc.control_points)
                ELSE bezier_spline(sc.control_points)
      curve_obj == [name |-> <<name, "Obj">>,
                    data |-> [name |-> name, dimensions |-> "3D",
                              splines |-> <<spline>>]]
  IN [sc EXCEPT !.curves = Append(@, curve_obj),
                !.report = "INFO", !.result = "FINISHED"]

(* Mutant of generate_execute: the generated curve becomes the selection, *)
(* the active index moves to the last point.                              *)
GenerateMovesActive(sc) ==
  LET name == IF sc.curve_name # "" THEN sc.curve_name ELSE "GeneratedCurve"
      spline == IF sc.curve_type = "NURBS" THEN nurbs_spline(sc.control_points)
                ELSE bezier_spline(sc.control_points)
      curve_obj == [name |-> <<name, "Obj">>,
                    data |-> [name |-> name, dimensions |-> "3D",
                              splines |-> <<spline>>]]
  IN IF Len(sc.control_points) = 0
     THEN [sc EXCEPT !.report = "WARNING", !.result = "CANCELLED"]
     ELSE [sc EXCEPT !.curves = Append(@, curve_obj),
                     !.active_control_point_index = Len(sc.control_points) - 1,
                     !.report = "INFO", !.result = "FINISHED"]

(* OBJECT_OT_generate_curve.execute *)
generate_execute(sc) ==
  LET name == IF sc.curve_name # "" THEN sc.curve_name ELSE "GeneratedCurve"
      spline == IF sc.curve_type = "NURBS" THEN nurbs_spline(sc.control_points)
                ELSE bezier_spline(sc.control_points)
      curve_obj == [name |-> <<name, "Obj">>,
                    data |-> [name |-> name, dimensions |-> "3D",
                              splines |-> <<spline>>]]
  IN IF Len(sc.control_points) = 0
     THEN [sc EXCEPT !.report = "WARNING", !.result = "CANCELLED"]
     ELSE [sc EXCEPT !.curves = Append(@, curve_obj),
                     !.report = "INFO", !.result = "FINISHED"]

(* OBJECT_OT_select_curve_type.execute *)
select_curve_type_execute(sc, type) ==
  [sc EXCEPT !.curve_type = type, !.report = "INFO", !.result = "FINISHED"]

(* ---------------------------------------------------------------------- *)
(* add_control_point while the host refuses to create spheres             *)
(* ---------------------------------------------------------------------- *)

(* create_control_point_sphere up to the point where the call of           *)
(* bpy.ops.mesh.primitive_uv_sphere_add raises: the name is assigned and   *)
(* any object of that name removed, no sphere is created.                  *)
create_control_point_sphere_raises(sc, control_point, index) ==
  LET sphere_name == SphereName(index)
  IN [sc EXCEPT !.control_points[control_point + 1].sphere_name = sphere_name,
                !.objects = cleanup_sphere(@, sphere_name)]

(* point.x, point.y, point.z = a, b, c: the three values are assigned; the *)
(* exception raised inside each update callback is printed by the host     *)
(* and the assignments go on.                                              *)
SetXYZRaises(sc, p, a, b, c) ==
  LET s1 == create_control_point_sphere_raises(
              [sc EXCEPT !.control_points[p + 1].x = a], p, p)
      s2 == create_control_point_sphere_raises(
              [s1 EXCEPT !.control_points[p + 1].y = b], p, p)
  IN create_control_point_sphere_raises(
       [s2 EXCEPT !.control_points[p + 1].z = c], p, p)

(* The shift loop of the inserting branch, with the callbacks raising. *)
RECURSIVE ShiftLoopRaises(_, _, _, _)
ShiftLoopRaises(sc, existing_points, i, index) ==
  IF i <= index THEN sc
  ELSE LET prev_idx == i - 1
           data == existing_points[prev_idx + 1]
           next == IF prev_idx >= 0 /\ prev_idx < Len(existing_points)
                   THEN SetXYZRaises(sc, i, data.x, data.y, data.z)
                   ELSE sc
       IN ShiftLoopRaises(next, existing_points, i - 1, index)

(* The appending branch: the direct call of create_control_point_sphere    *)
(* raises out of execute(), the assignment of the active index is not      *)
(* reached.                                                                *)
AddAtEndRaises(sc) ==
  LET num_points == Len(sc.control_points)
      s0 == [sc EXCEPT !.control_points = collection_add(@)]
      s1 == SetXYZRaises(s0, num_points, 0, 0, 0)
      s2 == [s1 EXCEPT !.control_points[num_points + 1].sphere_name =
                          SphereName(num_points)]
      s3 == create_control_point_sphere_raises(s2, num_points, num_points)
  IN [s3 EXCEPT !.report = "ERROR"]

(* The inserting branch: the first round of the closing loop raises out of *)
(* execute().                                                              *)
AddAtIndexRaises(sc, index) ==
  LET num_points == Len(sc.control_points)
      existing_points == [i \in 1..num_points |->
                            [x |-> sc.control_points[i].x,
                             y |-> sc.control_points[i].y,
                             z |-> sc.control_points[i].z]]
      s0 == [sc EXCEPT !.objects = CleanupFrom(sc.control_points, @, 0)]
      s1 == [s0 EXCEPT !.control_points = collection_add(@)]
      s2 == ShiftLoopRaises(s1, existing_points, num_points, index)
      s3 == SetXYZRaises(s2, index, 0, 0, 0)
      s4 == create_control_point_sphere_raises(
              [s3 EXCEPT !.control_points[1].sphere_name = SphereName(0)], 0, 0)
  IN [s4 EXCEPT !.report = "ERROR"]

(* OBJECT_OT_add_control_point.execute when sphere creation raises. *)
add_execute_raises(sc, index) ==
  IF index < 0 \/ index > Len(sc.control_points)
  THEN AddAtEndRaises(sc)
  ELSE AddAtIndexRaises(sc, index)

(* ---------------------------------------------------------------------- *)
(* The state machine                                                      *)
(* ---------------------------------------------------------------------- *)

(* register() on a scene without control points: one point at the origin   *)
(* named "ControlPoint_0". Its coordinate assignments run the update       *)
(* callback, whose sphere-creating operator call the host may refuse in    *)
(* the registration context: the sphere exists or it does not.             *)
Init ==
  /\ control_points = <<[DefaultPoint EXCEPT !.sphere_name = SphereName(0)]>>
  /\ objects \in {[n \in {SphereName(0)} |-> <<0, 0, 0>>],
                  [n \in {} |-> <<0, 0, 0>>]}
  /\ active_control_point_index = 0
  /\ report = "NONE"
  /\ last = [op |-> "register", a |-> 0, b |-> 0]
  /\ curve_type = "BEZIER"
  /\ curve_name = "GeneratedCurve"
  /\ curves = <<>>
  /\ result = "NONE"

(* The scene after a list operator: every execute() of the list operators  *)
(* returns FINISHED unless it raised, and none of them reads or writes the *)
(* curve properties or the generated curves.                               *)
Becomes(sc) ==
  /\ control_points' = sc.control_points
  /\ objects' = sc.objects
  /\ active_control_point_index' = sc.active_control_point_index
  /\ report' = sc.report
  /\ result' = IF sc.report = "ERROR" THEN "RAISED" ELSE "FINISHED"
  /\ UNCHANGED <<curve_type, curve_name, curves>>

(* object.add_control_point with index in -1 .. len + 1 *)
Add ==
  /\ Len(control_points) < MaxPoints
  /\ \E index \in -1..(Len(control_points) + 1) :
       /\ Becomes(add_execute(Scene, index))
       /\ last' = [op |-> "add", a |-> index, b |-> 0]

(* object.remove_control_point with index in -1 .. len *)
Remove ==
  \E index \in -1..Len(control_points) :
    /\ Becomes(remove_execute(Scene, index))
    /\ last' = [op |-> "remove", a |-> index, b |-> 0]

(* object.move_control_point with index in 0 .. len (the list rows pass    *)
(* their own index; len is the first index past the list).                *)
Move ==
  \E direction \in {"UP", "DOWN"}, index \in 0..Len(control_points) :
    /\ Becomes(move_execute(Scene, direction, index))
    /\ last' = [op |-> "move", a |-> index, b |-> IF direction = "UP" THEN -1 ELSE 1]

(* object.reorder_control_point with both indices in -1 .. len *)
Reorder ==
  \E old_index \in -1..Len(control_points), new_index \in -1..Len(control_points) :
    /\ Becomes(reorder_execute(Scene, old_index, new_index))
    /\ last' = [op |-> "reorder", a |-> old_index, b |-> new_index]

(* object.show_control_points *)
Show ==
  /\ Becomes(show_execute(Scene))
  /\ last' = [op |-> "show", a |-> 0, b |-> 0]

(* object.hide_control_points *)
Hide ==
  /\ Becomes(hide_execute(Scene))
  /\ last' = [op |-> "hide", a |-> 0, b |-> 0]

(* The user types a value into the X field of a list row. The Y and Z     *)
(* fields carry the same update callback; the operators assign all three. *)
Edit ==
  \E p \in 0..(Len(control_points) - 1), v \in Coords :
    /\ Becomes(SetX(Scene, p, v))
    /\ last' = [op |-> "edit", a |-> p, b |-> v]

Next == Add \/ Remove \/ Move \/ Reorder \/ Show \/ Hide \/ Edit

Spec == Init /\ [][Next]_vars

(* object.add_control_point at a moment the host refuses the sphere: the   *)
(* call of bpy.ops.mesh.primitive_uv_sphere_add raises.                    *)
AddRefused ==
  /\ Len(control_points) < MaxPoints
  /\ \E index \in -1..(Len(control_points) + 1) :
       /\ Becomes(add_execute_raises(Scene, index))
       /\ last' = [op |-> "add_refused", a |-> index, b |-> 0]

NextRefused == Next \/ AddRefused

(* The list commands in a host that may refuse to create a sphere. *)
SpecRefused == Init /\ [][NextRefused]_vars

(* object.move_control_point with index -1, the index before the list;     *)
(* Move covers the indices 0 .. len.                                       *)
MoveMinusOne ==
  \E direction \in {"UP", "DOWN"} :
    /\ Becomes(move_execute(Scene, direction, -1))
    /\ last' = [op |-> "move", a |-> -1, b |-> IF direction = "UP" THEN -1 ELSE 1]

NextAnyMove == Next \/ MoveMinusOne

(* The list commands with move called on every index from -1 to len. *)
SpecAnyMove == Init /\ [][NextAnyMove]_vars

(* ---------------------------------------------------------------------- *)
(* Curve generation as a state machine: generate applied to the lists the *)
(* list commands build                                                    *)
(* ---------------------------------------------------------------------- *)

(* Bounds: the longest list handed to generate (long enough for the order  *)
(* cap of the NURBS branch to bite) and the number of curves generated.    *)
MaxGenPoints == 5

MaxCurves == 2

(* The values of scene.curve_type the panel's two buttons pass, and the    *)
(* texts the user types into the curve-name field in place of the         *)
(* registered default (a name of their own, and the field cleared).        *)
CurveTypes == {"BEZIER", "NURBS"}

CurveNames == {"Path", ""}

(* The list after appending Len(xs) points and typing xs into their X      *)
(* fields, with every point named for its index and shown by its sphere.   *)
BuiltPoints(xs) ==
  [i \in 1..Len(xs) |->
     [x |-> xs[i], y |-> 0, z |-> 0, sphere_name |-> SphereName(i - 1)]]

BuiltObjects(xs) ==
  [n \in {SphereName(i - 1) : i \in 1..Len(xs)} |-> <<xs[n[2] + 1], 0, 0>>]

(* The X coordinates of the lists handed to generate: every list of up to  *)
(* MaxPoints points over Coords, the longer lists 0, 1, 2, ... of up to    *)
(* MaxGenPoints points, and the list (2,0,0), (0,0,0), (1,0,0) built by    *)
(* two appends and one insert at the start.                                *)
BuiltLists ==
  UNION {[1..n -> Coords] : n \in 0..MaxPoints}
    \cup {[i \in 1..n |-> i - 1] : n \in (MaxPoints + 1)..MaxGenPoints}
    \cup {<<2, 0, 1>>}

(* The scene after register(), a run of add_control_point and coordinate   *)
(* edits (or, for the empty list, the removal of the seeded point): the    *)
(* active index is that of the point added last, at the end or the start.  *)
InitGen ==
  /\ \E xs \in BuiltLists :
       /\ control_points = BuiltPoints(xs)
       /\ objects = BuiltObjects(xs)
       /\ active_control_point_index \in
            {0, IF Len(xs) = 0 THEN 0 ELSE Len(xs) - 1}
  /\ report = "NONE"
  /\ last = [op |-> "register", a |-> 0, b |-> 0]
  /\ curve_type = "BEZIER"
  /\ curve_name = "GeneratedCurve"
  /\ curves = <<>>
  /\ result = "NONE"

(* All variables take the values of the scene record sc. *)
BecomesCurveScene(sc) ==
  /\ control_points' = sc.control_points
  /\ objects' = sc.objects
  /\ active_control_point_index' = sc.active_control_point_index
  /\ report' = sc.report
  /\ curve_type' = sc.curve_type
  /\ curve_name' = sc.curve_name
  /\ curves' = sc.curves
  /\ result' = sc.result

(* The runs explored: the curve properties are set and the curves          *)
(* generated on the list as built; list commands follow the last generate. *)
ListAsBuilt == last.op \in {"register", "select", "name", "generate"}

(* object.select_curve_type, from the panel's NURBS and Bezier buttons *)
SelectCurveType ==
  /\ ListAsBuilt
  /\ \E type \in CurveTypes :
    /\ BecomesCurveScene(select_curve_type_execute(CurveScene, type))
    /\ last' = [op |-> "select", a |-> 0, b |-> 0]

(* The user types into the panel's curve-name field: a plain property      *)
(* write, no operator runs.                                                *)
SetCurveName ==
  /\ ListAsBuilt
  /\ \E name \in CurveNames :
    /\ curve_name' = name
    /\ last' = [op |-> "name", a |-> 0, b |-> 0]
    /\ UNCHANGED <<control_points, objects, active_control_point_index,
                   report, curve_type, curves, result>>

(* object.generate_curve *)
Generate ==
  /\ Len(curves) < MaxCurves
  /\ BecomesCurveScene(generate_execute(CurveScene))
  /\ last' = [op |-> "generate", a |-> 0, b |-> 0]

(* One list command or coordinate edit on a scene that has just been       *)
(* handed to generate for the last time.                                   *)
LaterCommand ==
  /\ last.op = "generate"
  /\ Len(curves) = MaxCurves \/ result = "CANCELLED"
  /\ (Add \/ Remove \/ Move \/ Reorder \/ Edit)

NextGen == SelectCurveType \/ SetCurveName \/ Generate \/ LaterCommand

SpecGen == InitGen /\ [][NextGen]_vars

(* ---------------------------------------------------------------------- *)
(* Vocabulary of the properties                                           *)
(* ---------------------------------------------------------------------- *)

(* The scene after the step. *)
ScenePost ==
  [control_points |-> control_points',
   objects |-> objects',
   active_control_point_index |-> active_control_point_index',
   report |-> "NONE"]

Pos(pt) == <<pt.x, pt.y, pt.z>>

(* The point order: the coordinates of the points, in list order. *)
Positions(cps) == [i \in 1..Len(cps) |-> Pos(cps[i])]

InList(cps, i) == 0 <= i /\ i < Len(cps)

(* seq without its element at 0-based position k *)
TakeOut(seq, k) == SubSeq(seq, 1, k) \o SubSeq(seq, k + 2, Len(seq))

(* seq with e put in so that it sits at 0-based position k *)
PutIn(seq, k, e) == SubSeq(seq, 1, k) \o <<e>> \o SubSeq(seq, k + 1, Len(seq))

(* ---------------------------------------------------------------------- *)
(* C1. Marker-index agreement: after every command, every point with a    *)
(* non-empty sphere_name is named "ControlPoint_<i>" for its current      *)
(* list index i.                                                          *)
(* ---------------------------------------------------------------------- *)
MarkerIndexAgreement ==
  \A p \in 0..(Len(control_points) - 1) :
    control_points[p + 1].sphere_name # EmptyName
      => control_points[p + 1].sphere_name = SphereName(p)

(* ---------------------------------------------------------------------- *)
(* C2. No dangling marker binding: in every reachable state, every point  *)
(* with a non-empty sphere_name names an object that exists.              *)
(* ---------------------------------------------------------------------- *)
NoDanglingMarker ==
  \A p \in 0..(Len(control_points) - 1) :
    control_points[p + 1].sphere_name # EmptyName
      => control_points[p + 1].sphere_name \in DOMAIN objects

(* ---------------------------------------------------------------------- *)
(* C3. The active index stays in range: whenever the list is non-empty,   *)
(* 0 <= active_control_point_index <= length - 1.                         *)
(* ---------------------------------------------------------------------- *)
ActiveIndexInRange ==
  Len(control_points) > 0
    => /\ 0 <= active_control_point_index
       /\ active_control_point_index <= Len(control_points) - 1

(* What an add with this index has to have done, step to step. *)
InsertPost(index) ==
  LET n == Len(control_points)
      at == IF 0 <= index /\ index <= n THEN index ELSE n
      old == Positions(control_points)
      new == Positions(control_points')
  IN /\ Len(control_points') = n + 1
     /\ \A p \in 0..(at - 1) : new[p + 1] = old[p + 1]
     /\ new[at + 1] = <<0, 0, 0>>
     /\ \A j \in at..(n - 1) : new[j + 2] = old[j + 1]
     /\ ~(0 <= index /\ index <= n)
          => SubSeq(control_points', 1, n) = control_points
     /\ active_control_point_index' = at

(* ---------------------------------------------------------------------- *)
(* C4. Insert: with 0 <= index <= length the list grows by one, the       *)
(* points before index keep their place, the point at index is the        *)
(* default (0,0,0) and every point from index on sits one place further   *)
(* with the same coordinates; with any other index the default point is   *)
(* put at the old length and the others are unchanged. The active index   *)
(* is the place of the new point.                                         *)
(* ---------------------------------------------------------------------- *)
InsertPlacesPoint == [][last'.op = "add" => InsertPost(last'.a)]_vars

(* A default point was inserted between two points that are not at the    *)
(* origin.                                                                *)
InsertPlacesPointWitness ==
  /\ last.op = "add"
  /\ last.a = 1
  /\ Len(control_points) = 3
  /\ active_control_point_index = 1
  /\ Positions(control_points) = <<(<<1, 0, 0>>), (<<0, 0, 0>>), (<<1, 0, 0>>)>>

(* ---------------------------------------------------------------------- *)
(* C5. Insert-at-end equivalence: from every reachable state, adding with *)
(* index -1, with index length and with index length + 5 lead to the same *)
(* state: point order, active index, sphere names and existing objects.   *)
(* ---------------------------------------------------------------------- *)
InsertAtEndEquivalence ==
  LET n == Len(control_points) IN
  /\ add_execute(Scene, -1) = add_execute(Scene, n)
  /\ add_execute(Scene, n) = add_execute(Scene, n + 5)

(* What a remove of an index of the list has to have done. *)
RemovePost(index) ==
  /\ control_points' = TakeOut(control_points, index)
  /\ control_points[index + 1].sphere_name # EmptyName
       => control_points[index + 1].sphere_name \notin DOMAIN objects'

(* ---------------------------------------------------------------------- *)
(* C6. Remove with 0 <= index <= length - 1: the list is the old list     *)
(* with exactly the element at index deleted, and the object named by the *)
(* removed point's sphere_name does not exist afterwards.                 *)
(* ---------------------------------------------------------------------- *)
RemoveDeletesPoint ==
  [][(last'.op = "remove" /\ InList(control_points, last'.a))
       => RemovePost(last'.a)]_vars

(* The middle point of three was removed; the two that remain differ. *)
RemoveDeletesPointWitness ==
  /\ last.op = "remove"
  /\ last.a = 1
  /\ report = "INFO"
  /\ Positions(control_points) = <<(<<0, 0, 0>>), (<<1, 0, 0>>)>>
  /\ SphereName(1) \notin DOMAIN objects

(* ---------------------------------------------------------------------- *)
(* C7. Remove with an index outside 0 .. length - 1 is rejected with a    *)
(* warning and changes nothing: points, active index, sphere names and    *)
(* objects are as before.                                                 *)
(* ---------------------------------------------------------------------- *)
RemoveOutOfRangeRejected ==
  [][(last'.op = "remove" /\ ~InList(control_points, last'.a))
       => /\ report' = "WARNING"
          /\ UNCHANGED <<control_points, objects, active_control_point_index>>]_vars

(* A remove past the end of a list of two was refused. *)
RemoveOutOfRangeWitness ==
  /\ last.op = "remove"
  /\ last.a = Len(control_points)
  /\ Len(control_points) = 2
  /\ report = "WARNING"
  /\ DOMAIN objects = {SphereName(0), SphereName(1)}

(* What a move from index by step (-1 up, 1 down) has to have done. *)
MovePost(index, step) ==
  LET nb == index + step
      old == Positions(control_points)
      new == Positions(control_points')
  IN IF InList(control_points, nb)
     THEN /\ Len(control_points') = Len(control_points)
          /\ new[index + 1] = old[nb + 1]
          /\ new[nb + 1] = old[index + 1]
          /\ \A p \in 0..(Len(control_points) - 1) :
               (p # index /\ p # nb) => control_points'[p + 1] = control_points[p + 1]
          /\ active_control_point_index' = nb
     ELSE UNCHANGED <<control_points, objects, active_control_point_index>>

(* ---------------------------------------------------------------------- *)
(* C8. Move up or down from an index of the list: when the neighbour      *)
(* index is outside the list, the point order, the active index and the   *)
(* objects are unchanged; otherwise the two points change places, every   *)
(* other point keeps its index, and the active index is the neighbour     *)
(* index.                                                                 *)
(* ---------------------------------------------------------------------- *)
MoveAdjacentSwaps ==
  [][(last'.op = "move" /\ InList(control_points, last'.a))
       => MovePost(last'.a, last'.b)]_vars

(* The first of three points was moved down past a point with other       *)
(* coordinates.                                                           *)
MoveAdjacentSwapsWitness ==
  /\ last.op = "move"
  /\ last.a = 0
  /\ last.b = 1
  /\ active_control_point_index = 1
  /\ Positions(control_points) = <<(<<0, 0, 0>>), (<<1, 0, 0>>), (<<0, 0, 0>>)>>

(* What a reorder between two indices of the list has to have done. *)
ReorderPost(old_index, new_index) ==
  LET old == Positions(control_points)
  IN /\ Positions(control_points') =
          PutIn(TakeOut(old, old_index), new_index, old[old_index + 1])
     /\ active_control_point_index' = new_index
     /\ \A p \in 0..(Len(control_points') - 1) :
          /\ control_points'[p + 1].sphere_name = SphereName(p)
          /\ SphereName(p) \in DOMAIN objects'

(* ---------------------------------------------------------------------- *)
(* C9. Reorder with both indices in the list: the element at old_index is *)
(* taken out and put back so that it sits at new_index (the elements      *)
(* between shift by one); the active index is new_index; afterwards every *)
(* point at index i is named "ControlPoint_<i>" and an object of that     *)
(* name exists.                                                           *)
(* ---------------------------------------------------------------------- *)
ReorderRepositions ==
  [][(last'.op = "reorder" /\ InList(control_points, last'.a)
        /\ InList(control_points, last'.b))
       => ReorderPost(last'.a, last'.b)]_vars

(* The first of three points went to the end and both others moved up: a  *)
(* swap of the ends would have left this order as it was.                 *)
ReorderRepositionsWitness ==
  /\ last.op = "reorder"
  /\ last.a = 0
  /\ last.b = 2
  /\ active_control_point_index = 2
  /\ Positions(control_points) = <<(<<1, 0, 0>>), (<<0, 0, 0>>), (<<0, 0, 0>>)>>

(* ---------------------------------------------------------------------- *)
(* C10. Move round trip: for every list the commands build and all        *)
(* indices a, b of the list, the reorder from a to b followed by the      *)
(* reorder from b to a gives back the original point order.               *)
(* ---------------------------------------------------------------------- *)
MoveRoundTrip ==
  \A a \in 0..(Len(control_points) - 1), b \in 0..(Len(control_points) - 1) :
    Positions(reorder_execute(reorder_execute(Scene, a, b), b, a).control_points)
      = Positions(control_points)

(* A reorder took the last of three points to the front, past two points  *)
(* that differ; the reorder back has to shift both of them again.         *)
MoveRoundTripWitness ==
  /\ last.op = "reorder"
  /\ last.a = 2
  /\ last.b = 0
  /\ Positions(control_points) = <<(<<0, 0, 0>>), (<<0, 0, 0>>), (<<1, 0, 0>>)>>
  /\ Positions(reorder_execute(Scene, 0, 2).control_points)
       = <<(<<0, 0, 0>>), (<<1, 0, 0>>), (<<0, 0, 0>>)>>

(* The curve made by the generate step just taken: the last of curves'. *)
NewCurve == curves'[Len(curves')]

(* The generate step just taken added exactly one curve, of one spline. *)
OneNewCurve ==
  /\ Len(curves') = Len(curves) + 1
  /\ SubSeq(curves', 1, Len(curves)) = curves
  /\ Len(NewCurve.data.splines) = 1

NurbsPost ==
  LET n == Len(control_points)
      spline == NewCurve.data.splines[1]
  IN /\ OneNewCurve
     /\ spline.type = "NURBS"
     /\ DOMAIN spline.points = 1..n
     /\ \A i \in 1..n :
          spline.points[i] =
            <<control_points[i].x, control_points[i].y, control_points[i].z, 1>>
     /\ spline.order_u = (IF n < 4 THEN n ELSE 4)
     /\ spline.use_endpoint_u = TRUE

(* ---------------------------------------------------------------------- *)
(* C11. NURBS generation: on a list of n >= 1 points, generate with curve *)
(* type NURBS makes a spline of exactly n control points, the i-th being  *)
(* (x, y, z of list[i], weight 1.0), assigns it the order min(4, n) and   *)
(* turns endpoint interpolation on.                                       *)
(* ---------------------------------------------------------------------- *)
NurbsGeneration ==
  [][(last'.op = "generate" /\ curve_type = "NURBS" /\ Len(control_points) > 0)
       => NurbsPost]_vars

(* A list of five points was generated as NURBS: five control points,     *)
(* order 4, the cap at work.                                              *)
NurbsGenerationWitness ==
  /\ last.op = "generate"
  /\ curve_type = "NURBS"
  /\ Len(control_points) = 5
  /\ Len(curves) > 0
  /\ curves[Len(curves)].data.splines[1].type = "NURBS"
  /\ curves[Len(curves)].data.splines[1].order_u = 4
  /\ curves[Len(curves)].data.splines[1].points[5] = <<4, 0, 0, 1>>

(* The generate step just taken made a Bezier spline of one anchor per    *)
(* point, in list order, with automatic handles.                          *)
BezierPost ==
  LET n == Len(control_points)
      spline == NewCurve.data.splines[1]
  IN /\ OneNewCurve
     /\ spline.type = "BEZIER"
     /\ DOMAIN spline.bezier_points = 1..n
     /\ \A i \in 1..n :
          /\ spline.bezier_points[i].co =
               <<control_points[i].x, control_points[i].y, control_points[i].z>>
          /\ spline.bezier_points[i].handle_left_type = "AUTO"
          /\ spline.bezier_points[i].handle_right_type = "AUTO"

EmptyListGenerate ==
  [][(last'.op = "generate" /\ Len(control_points) = 0)
       => /\ report' = "WARNING"
          /\ result' = "CANCELLED"
          /\ UNCHANGED <<curves, control_points, objects,
                         active_control_point_index, curve_type, curve_name>>]_vars

(* Generate ran on the empty list with the NURBS type selected and was    *)
(* cancelled.                                                             *)
EmptyListGenerateWitness ==
  /\ last.op = "generate"
  /\ Len(control_points) = 0
  /\ curve_type = "NURBS"
  /\ result = "CANCELLED"
  /\ report = "WARNING"
  /\ curves = <<>>

(* ---------------------------------------------------------------------- *)
(* C14. Empty-list no-ops: on an empty list, remove, move and reorder     *)
(* with any arguments leave the list empty, the active index unchanged    *)
(* and every sphere as it was, while add with any index puts the new      *)
(* point at index 0.                                                      *)
(* ---------------------------------------------------------------------- *)
EmptyListNoOps ==
  [][Len(control_points) = 0
       => /\ last'.op \in {"remove", "move", "reorder"}
               => UNCHANGED <<control_points, objects, active_control_point_index>>
          /\ last'.op = "add"
               => /\ Len(control_points') = 1
                  /\ Pos(control_points'[1]) = <<0, 0, 0>>]_vars

(* The spheres are exactly ControlPoint_0 .. ControlPoint_<len - 1>, each  *)
(* at the coordinates of the point at its index.                          *)
OneSpherePerPoint(cps, objs) ==
  /\ {n \in DOMAIN objs : IsSphereName(n)} =
       {SphereName(i) : i \in 0..(Len(cps) - 1)}
  /\ \A i \in 0..(Len(cps) - 1) : objs[SphereName(i)] = Pos(cps[i + 1])

(* ---------------------------------------------------------------------- *)
(* C15. Hide is data-preserving and reversible: hide removes every sphere *)
(* and leaves the points' coordinates, their order, the length and the    *)
(* active index unchanged; a show, after a hide or in any other state,    *)
(* leaves the same data unchanged and results in exactly one sphere per   *)
(* point, named "ControlPoint_<i>" and located at list[i]'s coordinates,  *)
(* and no other "ControlPoint_*" object.                                  *)
(* ---------------------------------------------------------------------- *)
HideThenShow ==
  [][/\ last'.op = "hide"
          => /\ \A n \in DOMAIN objects' : ~IsSphereName(n)
             /\ Positions(control_points') = Positions(control_points)
             /\ active_control_point_index' = active_control_point_index
     /\ last'.op = "show"
          => /\ Positions(control_points') = Positions(control_points)
             /\ active_control_point_index' = active_control_point_index
             /\ OneSpherePerPoint(control_points', objects')]_vars

(* Show has run on a list of two points after a point was removed (the    *)
(* active index is past the list): two spheres, one per point.            *)
HideThenShowWitness ==
  /\ last.op = "show"
  /\ Len(control_points) = 2
  /\ active_control_point_index = 2
  /\ control_points[2].x = 1
  /\ OneSpherePerPoint(control_points, objects)

(* The index add_control_point(index) puts the new point at. *)
AddedAt(index) ==
  IF index < 0 \/ index > Len(control_points) THEN Len(control_points) ELSE index

(* ---------------------------------------------------------------------- *)
(* C16. Marker-creation failure: when the sphere-creating call fails      *)
(* during add_control_point, the added point stays in the list with an    *)
(* empty sphere_name, and the command still completes: the point order    *)
(* and the active index end as they would without the failure.            *)
(* ---------------------------------------------------------------------- *)
MarkerCreationFailure ==
  [][last'.op = "add_refused"
       => /\ Positions(control_points') =
               PutIn(Positions(control_points), AddedAt(last'.a), <<0, 0, 0>>)
          /\ control_points'[AddedAt(last'.a) + 1].sphere_name = EmptyName
          /\ active_control_point_index' = AddedAt(last'.a)
          /\ result' = "FINISHED"]_vars

(* ---------------------------------------------------------------------- *)
(* C17. Marker uniqueness: in every state reachable by add, remove, move, *)
(* reorder, coordinate edit, show and hide, no two distinct points of the *)
(* list carry the same non-empty sphere_name.                             *)
(* ---------------------------------------------------------------------- *)
MarkerUniqueness ==
  \A i, j \in 1..Len(control_points) :
    (i # j /\ control_points[i].sphere_name # EmptyName)
      => control_points[i].sphere_name # control_points[j].sphere_name

(* ---------------------------------------------------------------------- *)
(* C18. No orphaned proxies: in every state reachable by add, remove,     *)
(* move, reorder, coordinate edit, show and hide, every object named      *)
(* "ControlPoint_*" is the sphere_name of some point of the list, so      *)
(* there are never more such objects than points.                         *)
(* ---------------------------------------------------------------------- *)
NoOrphanedSphere ==
  /\ \A n \in DOMAIN objects :
       IsSphereName(n)
         => \E i \in 1..Len(control_points) : control_points[i].sphere_name = n
  /\ Cardinality({n \in DOMAIN objects : IsSphereName(n)}) <= Len(control_points)

(* ---------------------------------------------------------------------- *)
(* C19. Move touches only the two swapped points' markers: from every     *)
(* reachable state (states after a remove included), a move that swaps    *)
(* the points at index and index + step leaves the sphere_name and the    *)
(* sphere of every other point as they were.                              *)
(* ---------------------------------------------------------------------- *)
MoveTouchesTwoMarkers ==
  [][(/\ last'.op = "move"
      /\ InList(control_points, last'.a)
      /\ InList(control_points, last'.a + last'.b))
       => \A p \in 0..(Len(control_points) - 1) \ {last'.a, last'.a + last'.b} :
            LET name == control_points[p + 1].sphere_name
            IN /\ control_points'[p + 1].sphere_name = name
               /\ (name \in DOMAIN objects') = (name \in DOMAIN objects)
               /\ name \in DOMAIN objects => objects'[name] = objects[name]]_vars

(* ---------------------------------------------------------------------- *)
(* C20. Generate is a pure reader of the list: a generate that succeeds   *)
(* (either curve type) creates exactly one new curve object and leaves    *)
(* the point list, the active index, the sphere names and the spheres     *)
(* unchanged, and a later add, remove, move, reorder or coordinate edit   *)
(* leaves every generated curve unchanged.                                *)
(* ---------------------------------------------------------------------- *)
GeneratePureReader ==
  [][/\ (last'.op = "generate" /\ Len(control_points) > 0)
          => /\ OneNewCurve
             /\ UNCHANGED <<control_points, objects, active_control_point_index>>
     /\ last'.op \in {"add", "remove", "move", "reorder", "edit"}
          => curves' = curves]_vars

(* A five-point list was generated as NURBS and then lost a point: the    *)
(* curve still has its five control points.                               *)
GeneratePureReaderWitness ==
  /\ last.op = "remove"
  /\ Len(control_points) = 4
  /\ Len(curves) > 0
  /\ curves[Len(curves)].data.splines[1].type = "NURBS"
  /\ DOMAIN curves[Len(curves)].data.splines[1].points = 1..5

(* ---------------------------------------------------------------------- *)
(* C21. Move with a source index outside 0 .. len - 1 whose neighbour     *)
(* index is in range (index = len with UP, index = -1 with DOWN) leaves   *)
(* the list order, the active index, the sphere names and the spheres     *)
(* unchanged.                                                             *)
(* ---------------------------------------------------------------------- *)
MoveOutsideRangeNoOp ==
  [][(/\ last'.op = "move"
      /\ ~InList(control_points, last'.a)
      /\ InList(control_points, last'.a + last'.b))
       => UNCHANGED <<control_points, objects, active_control_point_index>>]_vars

====
